---- MODULE Spec2Model ----
(***************************************************************************)
(* A model of Big_Sentinel_Classifier.py: the per-date quality-control and  *)
(* classification pipeline for Sentinel-2 tiles, its outputs on disk and    *)
(* the per-tile concatenation of the per-date summaries.                    *)
(*                                                                          *)
(* Numbers.  Band files hold integer digital numbers (DN); the code divides *)
(* them by 10000 to get reflectance.  The model keeps reflectance as the DN *)
(* (unit 1e-4) and albedo in units of 1e-8, so that the Liang formula is    *)
(* exact integer arithmetic.  A percentage of img_quality_control is the    *)
(* Python float the code computes, kept as its binary expansion and rounded *)
(* as IEEE 754 binary64 rounds.  A NaN cell of a float grid is the empty    *)
(* sequence <<>>, a defined cell holding v is <<v>>.                        *)
(***************************************************************************)
EXTENDS Integers, Sequences, FiniteSets, TLC

\* ------------------------------------------------------------------ bounds

\* Side of the (square) scene grid, in pixels.
GridSize == 3

\* Number of times the script is run over the same output directory.
MaxRuns == 2

\* --------------------------------------------------------- program constants

DefaultCloudProbThreshold == 50

DefaultMinimumUseableArea == 40

ReflectanceScale == 10000

RequiredBandFiles == 9

\* Liang et al. (2002) coefficients, in units of 1e-4, and the offset 0.0018
\* in units of 1e-8.
CoefBlue == 3560

CoefRed == 1300

CoefNIR == 3730

CoefSWIR1 == 850

CoefSWIR2 == 720

AlbedoOffset == 180000

\* ------------------------------------------------------------------- grids

Rows == 1..GridSize

Cols == 1..GridSize

\* A pixel is <<row, column>>, i.e. <<y index, x index>> of the arrays.
Pixels == Rows \X Cols

NumPixels == GridSize * GridSize

\* np.ravel / stack(allpoints=['y','x']): row-major position of a pixel, from 1.
RavelIndex(p) == (p[1] - 1) * GridSize + p[2]

\* The pixel at row-major position k (unstack / reshape).
Unravel(k) == << ((k - 1) \div GridSize) + 1, ((k - 1) % GridSize) + 1 >>

\* np.ravel of a grid: the sequence of its cells in row-major order.
Ravel(grid) == [k \in 1..NumPixels |-> grid[Unravel(k)]]

Transpose(grid) == [p \in Pixels |-> grid[<<p[2], p[1]>>]]

\* Float cells.
NaN == <<>>

Val(v) == <<v>>

IsNaN(cell) == cell = <<>>

\* ------------------------------------------------------------------- bands

\* The nine 20 m bands in the order in which load_model_and_images names them
\* and ClassifyImages concatenates them.
BandNames == <<"B02", "B03", "B04", "B05", "B06", "B07", "B8A", "B11", "B12">>

BandSet == {BandNames[i] : i \in 1..Len(BandNames)}

\* The key under which load_model_and_images stores each band in S2vals.
S2Keys == <<"B02", "B03", "B04", "B05", "B06", "B07", "B08", "B11", "B12">>

S2KeyOf(band) == S2Keys[CHOOSE i \in 1..Len(BandNames) : BandNames[i] = band]

SumSeq(s) ==
    LET RECURSIVE Go(_)
        Go(k) == IF k = 0 THEN 0 ELSE s[k] + Go(k - 1)
    IN Go(Len(s))

\* ------------------------------------------------------- the remote storage

\* Band digital numbers of typical surfaces, in BandNames order.
SpecSN == <<9500, 9400, 9200, 9000, 8800, 8600, 8300, 1200, 900>>

SpecWAT == <<1500, 1200, 800, 600, 500, 400, 300, 100, 100>>

SpecCC == <<900, 1000, 1100, 1150, 1200, 1200, 1100, 300, 250>>

SpecCI == <<6500, 6400, 6000, 5600, 5200, 4800, 4200, 400, 300>>

SpecLA == <<4200, 4400, 4300, 4500, 4400, 4200, 3800, 300, 250>>

SpecHA == <<2000, 2300, 2400, 2900, 3100, 3000, 2700, 250, 200>>

\* A pixel the sensor did not sample: every band is 0.
SpecNoData == <<0, 0, 0, 0, 0, 0, 0, 0, 0>>

\* A very dark sampled pixel whose B02 digital number is 1.
SpecDark == <<1, 2, 2, 3, 3, 2, 2, 0, 0>>

\* Reflectance 1 in band k alone.
SpecUnit(k) == [i \in 1..Len(BandNames) |-> IF i = k THEN ReflectanceScale ELSE 0]

\* A palette is laid over the grid in row-major order, cyclically.
PalSix == <<SpecSN, SpecWAT, SpecCC, SpecCI, SpecLA, SpecHA>>

PalGaps ==
    <<SpecSN, SpecWAT, SpecCC, SpecCI, SpecLA, SpecHA, SpecSN, SpecNoData, SpecDark>>

PalSnow == <<SpecSN>>

PalUnits == [k \in 1..Len(BandNames) |-> SpecUnit(k)]

PalZero == <<SpecNoData>>

DnGrid(palette) ==
    [p \in Pixels |-> palette[((RavelIndex(p) - 1) % Len(palette)) + 1]]

\* Cloud probability (0..100): the first `cols` columns hold `hi`, the rest `lo`.
ProbGrid(cols, hi, lo) == [p \in Pixels |-> IF p[2] <= cols THEN hi ELSE lo]

\* The static ice mask on the tile's grid: the first `rows` rows are ice.
IceGrid(rows) == [p \in Pixels |-> IF p[1] <= rows THEN 1 ELSE 0]

\* A stored object: its layer (a band, CLD, SCL, ...), its resolution in
\* metres and the granule it belongs to.
File(layer, res, granule) == [layer |-> layer, res |-> res, granule |-> granule]

FilesComplete ==
    {File(b, 20, 1) : b \in BandSet}
        \cup {File("CLD", 20, 1), File("SCL", 20, 1), File("B02", 10, 1)}

FilesMissingBand == FilesComplete \ {File("B04", 20, 1)}

FilesNoCloud == FilesComplete \ {File("CLD", 20, 1)}

\* Two granules of the same date: nine band files in all, B12 among none.
FilesTwoGranules == (FilesComplete \ {File("B12", 20, 1)}) \cup {File("B02", 20, 2)}

\* Two granules of the same date overlap: every band is there, B02 twice.
FilesOverlap == FilesComplete \cup {File("B02", 20, 2)}

FilesNone == {}

\* What the storage holds for one date of a tile.
Scene(files, prob, dn) == [files |-> files, prob |-> prob, dn |-> dn]

NoOverpass == Scene(FilesNone, ProbGrid(0, 0, 0), DnGrid(PalZero))

\* The scenes of the pipeline specification.
PipelineScenes ==
    { Scene(FilesComplete, ProbGrid(0, 100, 0), DnGrid(PalSix)),
      Scene(FilesComplete, ProbGrid(0, 100, 0), DnGrid(PalGaps)),
      Scene(FilesComplete, ProbGrid(1, 50, 49), DnGrid(PalSix)),
      Scene(FilesComplete, ProbGrid(GridSize, 100, 0), DnGrid(PalSix)),
      Scene(FilesMissingBand, ProbGrid(0, 100, 0), DnGrid(PalSix)),
      Scene(FilesNoCloud, ProbGrid(0, 100, 0), DnGrid(PalSix)),
      Scene(FilesTwoGranules, ProbGrid(0, 100, 0), DnGrid(PalSix)),
      Scene(FilesOverlap, ProbGrid(0, 100, 0), DnGrid(PalSix)) }

\* The scenes of the single-scene specification: every cloud bank, every
\* palette.
CloudLevels == {<<100, 0>>, <<50, 49>>, <<100, 50>>, <<51, 0>>}

Palettes == {PalSix, PalGaps, PalSnow, PalUnits, PalZero}

DetailScenes ==
    { Scene(FilesComplete, ProbGrid(cols, lv[1], lv[2]), DnGrid(pal)) :
        cols \in 0..GridSize, lv \in CloudLevels, pal \in Palettes }
        \cup { Scene(fs, ProbGrid(0, 100, 0), DnGrid(PalSix)) :
                 fs \in {FilesMissingBand, FilesNoCloud, FilesTwoGranules, FilesOverlap} }

ConfigPairs == {<<50, 40>>, <<0, 40>>, <<100, 40>>, <<50, 0>>, <<50, 100>>}

\* The dates the model runs over (the first two of the script's list) and the
\* date lists a run may be configured with.
DateSet == {"20170605", "20170610"}

DateLists ==
    { <<"20170605">>, <<"20170610">>,
      <<"20170605", "20170610">>, <<"20170610", "20170605">> }

tiles == <<"22wev">>

TileSet == {tiles[i] : i \in 1..Len(tiles)}

\* ---------------------------------------------------------- format_mask

\* gdal.ReprojectImage with nearest-neighbour resampling onto the scene's
\* grid: the static mask's cells, cell for cell (gimp is kept on that grid).
ReprojectMask(mask) == [p \in Pixels |-> mask[p]]

\* Mutant: the first where keeps only probabilities above the threshold.
CloudStep1_Strict(v, thr) == IF v > thr THEN v ELSE 0

\* Cloudmask.where(Cloudmask.values >= cloudProbThreshold, 0) on one cell.
CloudStep1(v, thr) == IF v >= thr THEN v ELSE 0

\* Cloudmask.where(Cloudmask.values < cloudProbThreshold, 1) on one cell.
CloudStep2(v, thr) == IF v < thr THEN v ELSE 1

CloudmaskOf(prob, thr) ==
    [p \in Pixels |-> CloudStep2(CloudStep1(prob[p], thr), thr)]

\* --------------------------------------------------- img_quality_control

CountIf(seq, Test(_)) == Cardinality({k \in 1..Len(seq) : Test(seq[k])})

\* The percentages are Python floats: IEEE 754 binary64, every operation
\* rounded to nearest, ties to even.  A float in [0, 128) is kept here as its
\* binary expansion, most significant bit first: IntBits bits before the
\* point and FracBits bits after it.  Every value met below is 0 or at least
\* 1/128, so its 53 significant bits and the bits that decide the rounding
\* lie within the expansion.
Precision == 53

IntBits == 7

FracBits == 60

\* The tuple of the values f[1], ..., f[n].
Bits(f, n) == SubSeq(f, 1, n)

Zeros(n) == Bits([i \in 1..n |-> 0], n)

\* The binary digits of a natural number on n bits.
IntToBits(k, n) == Bits([i \in 1..n |-> (k \div 2^(n - i)) % 2], n)

\* float(k) of an int 0 <= k < 128.
FromInt(k) == IntToBits(k, IntBits) \o Zeros(FracBits)

\* The carry into digit i of a + b + cin: it comes from the nearest digit to
\* the right where a and b agree, or from cin when they differ all the way.
CarryInto(a, b, i, cin) ==
    \/ \E k \in (i + 1)..Len(a) :
          a[k] = 1 /\ b[k] = 1 /\ \A j \in (i + 1)..(k - 1) : a[j] # b[j]
    \/ cin = 1 /\ \A j \in (i + 1)..Len(a) : a[j] # b[j]

\* a + b + cin on expansions of equal length; a carry out of the first digit
\* is dropped.
AddBits(a, b, cin) ==
    Bits([i \in 1..Len(a) |-> (a[i] + b[i] + (IF CarryInto(a, b, i, cin) THEN 1 ELSE 0)) % 2],
         Len(a))

ShiftLeft(a, s) == Bits([i \in 1..Len(a) |-> IF i + s <= Len(a) THEN a[i + s] ELSE 0], Len(a))

\* Round an exact result to the nearest float; sticky tells that the exact
\* value has nonzero digits beyond the expansion.
RoundToFloat(a, sticky) ==
    LET n == Len(a)
        ones == {i \in 1..n : a[i] = 1}
    IN IF ones = {} THEN a
       ELSE LET first == CHOOSE i \in ones : \A j \in ones : i <= j
                last == first + Precision - 1
            IN IF last >= n THEN a
               ELSE LET guard == a[last + 1]
                        rest == sticky \/ \E i \in (last + 2)..n : a[i] = 1
                        kept == Bits([i \in 1..n |-> IF i <= last THEN a[i] ELSE 0], n)
                        ulp == Bits([i \in 1..n |-> IF i = last THEN 1 ELSE 0], n)
                    IN IF guard = 1 /\ (rest \/ a[last] = 1)
                       THEN AddBits(kept, ulp, 0)
                       ELSE kept

\* 2^j modulo n, for 0 <= j < 90 and n < 128.
PowerOfTwoMod(j, n) ==
    LET h == 2^30 % n
    IN IF j < 30 THEN 2^j % n
       ELSE IF j < 60 THEN (h * (2^(j - 30) % n)) % n
            ELSE (((h * h) % n) * (2^(j - 60) % n)) % n

\* The j-th binary digit after the point of r / n, 0 <= r < n.
DivDigit(r, n, j) == (2 * ((r * PowerOfTwoMod(j - 1, n)) % n)) \div n

\* The remainder left after j digits.
DivRemainder(r, n, j) == (r * PowerOfTwoMod(j, n)) % n

\* k / n of two ints, 0 <= k <= n: Python's true division.
FloatDiv(k, n) ==
    RoundToFloat(IntToBits(k \div n, IntBits)
                     \o Bits([j \in 1..FracBits |-> DivDigit(k % n, n, j)], FracBits),
                 DivRemainder(k % n, n, FracBits) # 0)

\* x * m exactly, for the binary digits of m from digit j on: the sum of the
\* shifted copies of x.
RECURSIVE TimesFrom(_, _, _)
TimesFrom(x, m, j) ==
    IF j = IntBits THEN Zeros(Len(x))
    ELSE IF (m \div 2^j) % 2 = 1 THEN AddBits(ShiftLeft(x, j), TimesFrom(x, m, j + 1), 0)
         ELSE TimesFrom(x, m, j + 1)

\* x * m of a float and an int, the product below 128.
FloatTimes(x, m) == RoundToFloat(TimesFrom(x, m, 0), FALSE)

\* a - b of two floats, a >= b.
FloatMinus(a, b) ==
    RoundToFloat(AddBits(a, Bits([i \in 1..Len(b) |-> 1 - b[i]], Len(b)), 1), FALSE)

\* a < b
FloatLess(a, b) ==
    \E i \in 1..Len(a) : a[i] < b[i] /\ \A j \in 1..(i - 1) : a[j] = b[j]

\* (count / total) * 100
FloatPercent(count, total) == FloatTimes(FloatDiv(count, total), 100)

\* The percentages of the counts of a whole grid, computed once.
PercentOfGrid ==
    Bits([i \in 1..(NumPixels + 1) |-> FloatPercent(i - 1, NumPixels)], NumPixels + 1)

Percent(count, total) ==
    IF total = NumPixels THEN PercentOfGrid[count + 1] ELSE FloatPercent(count, total)

\* NaNcover counts the cells of B02 equal to 0.
NoDataCell(b02) == b02 = 0

\* Mutant: a pixel off the ice is not bad for that alone.
BadPixel_IgnoresIce(ice, cloud, b02) == cloud = 1 \/ b02 = 1

\* The test of the list comprehension that fills bad_pixel_counter.
BadPixel(ice, cloud, b02) == ice = 0 \/ cloud = 1 \/ b02 = 1

\* bad_pixel_counter: the positions i of np.arange(0, len(Iceravel), 1) that
\* pass the test (kept from 1 here).
BadPixelCounter(Iceravel, Cloudravel, NaNnumpy) ==
    {i \in 1..Len(Iceravel) : BadPixel(Iceravel[i], Cloudravel[i], NaNnumpy[i])}

\* 100 - (len(bad_pixel_counter) / len(Cloudravel)) * 100
UseableOfGrid ==
    Bits([i \in 1..(NumPixels + 1) |-> FloatMinus(FromInt(100), PercentOfGrid[i])], NumPixels + 1)

UseableArea(bad, total) ==
    IF total = NumPixels THEN UseableOfGrid[bad + 1]
    ELSE FloatMinus(FromInt(100), FloatPercent(bad, total))

\* Mutant: the flag is raised at equality too.
QCflagOf_AtMost(useable, minimum) == ~FloatLess(FromInt(minimum), useable)

\* if (useable_area < minimum_useable_area): QCflag = True, else False
QCflagOf(useable, minimum) == FloatLess(useable, FromInt(minimum))

QualityControl(Ice, Cloud, B02, minimum) ==
    LET Cloudravel == Ravel(Cloud)
        Iceravel == Ravel(Ice)
        NaNnumpy == Ravel(B02)
        bad_pixel_counter == BadPixelCounter(Iceravel, Cloudravel, NaNnumpy)
        useable == UseableArea(Cardinality(bad_pixel_counter), Len(Cloudravel))
    IN [ QCflag |-> QCflagOf(useable, minimum),
         CloudCover |-> Percent(CountIf(Cloudravel, LAMBDA v : v = 1), Len(Cloudravel)),
         IceCover |-> Percent(CountIf(Iceravel, LAMBDA v : v = 1), Len(Iceravel)),
         NaNcover |-> Percent(CountIf(NaNnumpy, LAMBDA v : NoDataCell(v)), Len(NaNnumpy)),
         bad_pixel_counter |-> bad_pixel_counter,
         useable_area |-> useable ]

\* ------------------------------------------------- load_model_and_images

\* A variable of an xarray Dataset: its dimension names and its array, which
\* is indexed by position whatever the names say.
Var(dims, data) == [dims |-> dims, data |-> data]

\* .values: the array in the variable's own dimension order.
Values(v) == v.data

\* The Dataset written to S2vals.nc: the nine bands and Icemask under
\* ('y','x'), Cloudmask under ('x','y').  bandGrids[i] is the grid read from
\* the file of BandNames[i].
S2valsOf(bandGrids, Ice, Cloud) ==
    [ k \in {S2Keys[i] : i \in 1..Len(S2Keys)} \cup {"Icemask", "Cloudmask"} |->
        IF k = "Icemask" THEN Var(<<"y", "x">>, Ice)
        ELSE IF k = "Cloudmask" THEN Var(<<"x", "y">>, Cloud)
        ELSE Var(<<"y", "x">>,
                 bandGrids[CHOOSE i \in 1..Len(S2Keys) : S2Keys[i] = k]) ]

\* ------------------------------------------------------- ClassifyImages

\* The pretrained random forest behind clf.predict: one decision tree over
\* the nine features of a sample, in training column order.
Predict(sample) ==
    IF sample[1] >= 8000 THEN 1
    ELSE IF sample[1] >= 5000 THEN 4
    ELSE IF sample[1] >= 3000 THEN 5
    ELSE IF sample[7] < 500 THEN 2
    ELSE IF sample[3] >= 2000 THEN 6
    ELSE 3

\* Mutant: the near-infrared and the first short-wave band change places.
ConcatBands_SwapsNIR(s2) ==
    [i \in 1..Len(S2Keys) |->
        Values(s2[S2Keys[IF i = 7 THEN 8 ELSE IF i = 8 THEN 7 ELSE i]])]

\* xr.concat([S2vals.B02, S2vals.B03, ..., S2vals.B12], band_idx): the band
\* arrays in this order, positions 1..9 (the code's values[0..8]).
ConcatBands(s2) == [i \in 1..Len(S2Keys) |-> Values(s2[S2Keys[i]])]

\* concat.stack(allpoints=['y','x']).T: one row per pixel in row-major order,
\* one column per band.
StackedT(concat) == [k \in 1..NumPixels |-> [i \in 1..Len(concat) |-> concat[i][Unravel(k)]]]

\* Mutant: the labels are laid back column by column.
PredictedGrid_ColumnMajor(concat) ==
    LET samples == StackedT(concat)
        labels == [k \in 1..NumPixels |-> Predict(samples[k])]
    IN [p \in Pixels |-> labels[RavelIndex(<<p[2], p[1]>>)]]

\* clf.predict(stackedT) and unstack(dim='samples') back to the (y, x) grid.
PredictedGrid(concat) ==
    LET samples == StackedT(concat)
        labels == [k \in 1..NumPixels |-> Predict(samples[k])]
    IN [p \in Pixels |-> labels[RavelIndex(p)]]

\* 0.356*values[1] + 0.13*values[3] + 0.373*values[6] + 0.085*values[7]
\* + 0.072*values[8] - 0.0018 with the code's zero-based positions.
AlbedoAt(concat, p) ==
    CoefBlue * concat[1 + 1][p] + CoefRed * concat[3 + 1][p]
        + CoefNIR * concat[6 + 1][p] + CoefSWIR1 * concat[7 + 1][p]
        + CoefSWIR2 * concat[8 + 1][p] - AlbedoOffset

AlbedoGrid(concat) == [p \in Pixels |-> AlbedoAt(concat, p)]

\* concat.sum(dim='bands') at one pixel.
BandSum(concat, p) == SumSeq([i \in 1..Len(concat) |-> concat[i][p]])

\* The array of a variable laid out as (y, x) by its dimension names.
ByDimName(v) == IF v.dims = <<"y", "x">> THEN v.data ELSE Transpose(v.data)

\* Mutant: the masks are combined by dimension name instead of by position,
\* which reads the ('x','y') Cloudmask transposed.
Mask2_ByDimName(s2) ==
    LET concat == ConcatBands(s2)
    IN [p \in Pixels |->
          /\ ByDimName(s2["Icemask"])[p] = 1
          /\ BandSum(concat, p) > 0
          /\ ByDimName(s2["Cloudmask"])[p] = 0]

\* mask2 = (Icemask.values == 1) & (concat.sum(dim='bands') > 0)
\*         & (Cloudmask.values == 0)
Mask2(s2) ==
    LET concat == ConcatBands(s2)
    IN [p \in Pixels |->
          /\ Values(s2["Icemask"])[p] = 1
          /\ BandSum(concat, p) > 0
          /\ Values(s2["Cloudmask"])[p] = 0]

\* fillna(0) of a float grid.
FillNa(grid) == [p \in Pixels |-> IF IsNaN(grid[p]) THEN Val(0) ELSE grid[p]]

\* Mutant: the grid is stored without the mask applied.
WhereMask_NotApplied(grid, mask) == grid

\* .where(mask2 > 0): NaN wherever the mask is false.
WhereMask(grid, mask) == [p \in Pixels |-> IF mask[p] THEN grid[p] ELSE NaN]

AsFloat(grid) == [p \in Pixels |-> Val(grid[p])]

\* The Dataset written to <tile>_<date>_Classification_and_Albedo_Data.nc;
\* every variable is stored under ['x','y'].  The projection attributes and
\* the longitude/latitude grids are left out: nothing reads them.
ArtifactOf(s2) ==
    LET concat == ConcatBands(s2)
        mask2 == Mask2(s2)
        predictedxr == WhereMask(FillNa(AsFloat(PredictedGrid(concat))), mask2)
        albedoxr == WhereMask(FillNa(AsFloat(AlbedoGrid(concat))), mask2)
    IN [ classified |-> Var(<<"x", "y">>, predictedxr),
         albedo |-> Var(<<"x", "y">>, albedoxr),
         Icemask |-> Var(<<"x", "y">>, Values(s2["Icemask"])),
         Cloudmask |-> Var(<<"x", "y">>, Values(s2["Cloudmask"])),
         FinalMask |-> Var(<<"x", "y">>, mask2) ]

\* ---------------------------------------------------------------- files

\* A file slot: <<>> when the file does not exist, <<content>> when it does.
NoFile == <<>>

FileOf(content) == <<content>>

Exists(slot) == slot # <<>>

ContentOf(slot) == slot[1]

BandIndex(band) == CHOOSE i \in 1..Len(BandNames) : BandNames[i] = band

\* -------------------------------------------------------- albedo_report

ClassIDs == <<"SN", "WAT", "CC", "CI", "LA", "HA">>

\* The keys of albedoDF.groupby(['pred']): the distinct non-NaN values of
\* pred (groupby drops the NaN key).
GroupKeys(predicted) == {predicted[k][1] : k \in {j \in 1..Len(predicted) : ~IsNaN(predicted[j])}}

\* The keys in ascending order, as groupby sorts them.
SortedKeys(keys) ==
    LET RECURSIVE Go(_)
        Go(S) == IF S = {} THEN <<>>
                 ELSE LET m == CHOOSE x \in S : \A y \in S : x <= y
                      IN <<m>> \o Go(S \ {m})
    IN Go(keys)

\* One row of describe()['albedo']: the albedo values of the rows whose pred
\* is `key` (NaN albedo is skipped).  std and the quartiles are functions of
\* the same values and are not kept.
DescribeRow(predicted, albedo, key) ==
    LET rows == {k \in 1..Len(predicted) :
                    /\ ~IsNaN(predicted[k])
                    /\ predicted[k][1] = key
                    /\ ~IsNaN(albedo[k])}
        vals == [k \in rows |-> albedo[k][1]]
        total == SumSeq([i \in 1..Len(albedo) |-> IF i \in rows THEN albedo[i][1] ELSE 0])
    IN [ count |-> Cardinality(rows),
         mean |-> [num |-> total, den |-> Cardinality(rows)],
         min |-> CHOOSE v \in {vals[k] : k \in rows} : \A k \in rows : v <= vals[k],
         max |-> CHOOSE v \in {vals[k] : k \in rows} : \A k \in rows : v >= vals[k] ]

\* The rows of summaryDF, one per key, in key order.
SummaryDF(predicted, albedo) ==
    LET keys == SortedKeys(GroupKeys(predicted))
    IN [i \in 1..Len(keys) |-> [key |-> keys[i], row |-> DescribeRow(predicted, albedo, keys[i])]]

\* xr.DataArray(summaryDF, dims=..., coords={'classID': [six names], ...})
\* raises unless summaryDF has as many rows as there are names.
SummaryShapeFits(summaryDF) == Len(summaryDF) = Len(ClassIDs)

\* The DataArray: the i-th row of summaryDF under the i-th class name.
Summaryxr(summaryDF, date) ==
    [ rows |-> [c \in {ClassIDs[i] : i \in 1..Len(ClassIDs)} |->
                  summaryDF[CHOOSE i \in 1..Len(ClassIDs) : ClassIDs[i] = c].row],
      date |-> date ]

\* The rows albedo_report appends to masterDF.
AlbedoDF(predicted, albedo, tile, date) ==
    [k \in 1..Len(predicted) |->
        [pred |-> predicted[k], albedo |-> albedo[k], tile |-> tile, date |-> date]]

\* ------------------------------------------------------ concat_all_dates

\* The orders in which glob may list the members of a set of names.
Orders(S) ==
    {f \in [1..Cardinality(S) -> S] : \A i, j \in 1..Cardinality(S) : f[i] = f[j] => i = j}

ConcatSeqs(seqs) ==
    LET RECURSIVE Go(_)
        Go(k) == IF k = 0 THEN <<>> ELSE Go(k - 1) \o seqs[k]
    IN Go(Len(seqs))

\* ---------------------------------------------------------------- state

VARIABLES
    pc,                     \* position of the script
    runsLeft,               \* runs of the script still to come
    dates,                  \* the configured date list of this run
    ti,                     \* index into tiles of the tile being processed
    di,                     \* index into dates of the date being processed
    cloudProbThreshold,     \* configuration
    minimum_useable_area,   \* configuration
    blob,                   \* remote storage: what it holds for each date
    gimp,                   \* the static ice mask on each tile's grid
    img_dir,                \* the .jp2 files in img_path
    s2vals_nc,              \* img_path/S2vals.nc
    artifacts,              \* <tile>_<date>_Classification_and_Albedo_Data.nc
    figures,                \* <tile>_<date>_Classified_Albedo.png
    summaries,              \* summary_data_<tile>_<date>.nc
    combined,               \* summary_data_all_dates_<tile>.nc
    download_flag,
    Icemask,
    Cloudmask,
    qc,                     \* what img_quality_control returned
    download_problem_list,
    QCList,
    masterDF,
    written,                \* history: the artifacts written in this run
    raised,                 \* history: where the exception of this date was raised
    concat_seen             \* history: the per-date summaries on disk when
                            \* concat_all_dates last wrote the combined file

vars ==
    << pc, runsLeft, dates, ti, di, cloudProbThreshold, minimum_useable_area,
       blob, gimp, img_dir, s2vals_nc, artifacts, figures, summaries, combined,
       download_flag, Icemask, Cloudmask, qc, download_problem_list, QCList,
       masterDF, written, raised, concat_seen >>

config == <<cloudProbThreshold, minimum_useable_area, blob, gimp>>

loop == <<runsLeft, dates, ti, di>>

outputs == <<artifacts, figures, summaries, combined, concat_seen>>

locals == <<download_flag, Icemask, Cloudmask, qc>>

lists == <<download_problem_list, QCList, masterDF>>

tile == tiles[ti]

date == dates[di]

Keys == TileSet \X DateSet

\* The state of the file system and of the interpreter before the first run.
InitRest ==
    /\ pc = "idle"
    /\ dates = <<>>
    /\ ti = 1
    /\ di = 1
    /\ img_dir = {}
    /\ s2vals_nc = NoFile
    /\ artifacts = [k \in Keys |-> NoFile]
    /\ figures = {}
    /\ summaries = [k \in Keys |-> NoFile]
    /\ combined = [t \in TileSet |-> NoFile]
    /\ download_flag = FALSE
    /\ Icemask = <<>>
    /\ Cloudmask = <<>>
    /\ qc = <<>>
    /\ download_problem_list = <<>>
    /\ QCList = <<>>
    /\ masterDF = <<>>
    /\ written = {}
    /\ raised = "none"
    /\ concat_seen = [t \in TileSet |-> {}]

Init ==
    /\ runsLeft = MaxRuns
    /\ cloudProbThreshold = DefaultCloudProbThreshold
    /\ minimum_useable_area = DefaultMinimumUseableArea
    /\ blob \in [DateSet -> PipelineScenes]
    /\ gimp \in [TileSet -> {IceGrid(r) : r \in 0..GridSize}]
    /\ InitRest

\* One run over one scene, under every configuration.
InitScene ==
    /\ runsLeft = 1
    /\ \E cfg \in ConfigPairs :
          /\ cloudProbThreshold = cfg[1]
          /\ minimum_useable_area = cfg[2]
    /\ blob \in {[d \in DateSet |-> IF d = "20170605" THEN s ELSE NoOverpass] :
                    s \in DetailScenes}
    /\ gimp \in [TileSet -> {IceGrid(r) : r \in 0..GridSize}]
    /\ InitRest

\* --------------------------------------------------------------- actions

\* The script starts: module globals are set afresh, the disk is as it was.
StartRun ==
    /\ pc \in {"idle", "done", "crashed"}
    /\ runsLeft > 0
    /\ runsLeft' = runsLeft - 1
    /\ \E dl \in DateLists : dates' = dl
    /\ ti' = 1
    /\ di' = 1
    /\ download_flag' = FALSE
    /\ Icemask' = <<>>
    /\ Cloudmask' = <<>>
    /\ qc' = <<>>
    /\ download_problem_list' = <<>>
    /\ QCList' = <<>>
    /\ masterDF' = <<>>
    /\ written' = {}
    /\ raised' = "none"
    /\ pc' = "download"
    /\ UNCHANGED <<config, img_dir, s2vals_nc, outputs>>

\* The local name under which a stored object is saved in img_path.
LocalFile(d, f) == [date |-> d, layer |-> f.layer, granule |-> f.granule]

\* glob(img_path + '*_B*_20m.jp2')
GlobBands(dir) == {f \in dir : f.layer \in BandSet}

\* glob(img_path + '*<layer>_20m.jp2')
GlobLayer(dir, layer) == {f \in dir : f.layer = layer}

\* The array a local .jp2 file holds.
ReadLayer(f) ==
    IF f.layer = "CLD" THEN blob[f.date].prob
    ELSE [p \in Pixels |-> blob[f.date].dn[p][BandIndex(f.layer)]]

\* Mutant: nine band files are not enough.
DownloadFlagOf_NineIsShort(dir) ==
    Cardinality(GlobBands(dir)) <= RequiredBandFiles \/ Cardinality(GlobLayer(dir, "CLD")) = 0

DownloadFlagOf(dir) ==
    Cardinality(GlobBands(dir)) < RequiredBandFiles \/ Cardinality(GlobLayer(dir, "CLD")) = 0

download_imgs_by_date ==
    /\ pc = "download"
    /\ LET filtered_bloblist == {f \in blob[date].files : f.res = 20}
           dir == img_dir \cup {LocalFile(date, f) : f \in filtered_bloblist}
       IN /\ img_dir' = dir
          /\ download_flag' = DownloadFlagOf(dir)
    /\ raised' = "none"
    /\ pc' = "downloaded"
    /\ UNCHANGED <<config, loop, s2vals_nc, outputs, Icemask, Cloudmask, qc, lists, written>>

\* format_mask is called before the try block of the main loop.
format_mask_ok ==
    /\ pc = "downloaded"
    /\ download_flag = FALSE
    /\ GlobLayer(img_dir, "B02") # {}
    /\ \E cld \in GlobLayer(img_dir, "CLD") :
          /\ Icemask' = ReprojectMask(gimp[tile])
          /\ Cloudmask' = CloudmaskOf(ReadLayer(cld), cloudProbThreshold)
    /\ pc' = "masked"
    /\ UNCHANGED <<config, loop, img_dir, s2vals_nc, outputs, download_flag, qc, lists, written, raised>>

\* The ice mask or the cloud layer cannot be read (gdal.Open returns None for
\* a missing or damaged file and the next attribute access raises;
\* xr.open_rasterio raises): no handler encloses the call, the script ends.
format_mask_raises ==
    /\ pc = "downloaded"
    /\ download_flag = FALSE
    /\ raised' = "format_mask"
    /\ pc' = "crashed"
    /\ UNCHANGED <<config, loop, img_dir, s2vals_nc, outputs, locals, lists, written>>

format_mask == format_mask_ok \/ format_mask_raises

img_quality_control ==
    /\ pc = "masked"
    /\ IF GlobLayer(img_dir, "B02") = {}
       THEN /\ pc' = "crashed"
            /\ UNCHANGED qc
       ELSE \E NaNimg \in GlobLayer(img_dir, "B02") :
              /\ qc' = QualityControl(Icemask, Cloudmask, ReadLayer(NaNimg), minimum_useable_area)
              /\ pc' = "checked"
    /\ UNCHANGED <<config, loop, img_dir, s2vals_nc, outputs, download_flag, Icemask, Cloudmask, lists, written, raised>>

\* The ways of taking glob(...)[0] for each of the nine bands.
BandFileChoices(dir) ==
    LET RECURSIVE Go(_)
        Go(i) == IF i = 0 THEN {<<>>}
                 ELSE {Append(s, f) : s \in Go(i - 1), f \in GlobLayer(dir, BandNames[i])}
    IN Go(Len(BandNames))

\* Mutant: an S2vals.nc found in the image directory is kept, not rewritten.
load_model_and_images_ok_KeepsExisting ==
    /\ pc = "checked"
    /\ qc.QCflag = FALSE
    /\ \E fileB \in BandFileChoices(img_dir) :
          s2vals_nc' = IF Exists(s2vals_nc) THEN s2vals_nc
                       ELSE FileOf(S2valsOf([i \in 1..Len(BandNames) |-> ReadLayer(fileB[i])],
                                            Icemask, Cloudmask))
    /\ pc' = "loaded"
    /\ UNCHANGED <<config, loop, img_dir, outputs, locals, lists, written, raised>>

load_model_and_images_ok ==
    /\ pc = "checked"
    /\ qc.QCflag = FALSE
    /\ \E fileB \in BandFileChoices(img_dir) :
          s2vals_nc' = FileOf(S2valsOf([i \in 1..Len(BandNames) |-> ReadLayer(fileB[i])],
                                       Icemask, Cloudmask))
    /\ pc' = "loaded"
    /\ UNCHANGED <<config, loop, img_dir, outputs, locals, lists, written, raised>>

\* fileBxx[0] of an empty glob raises IndexError before S2vals is written.
load_model_and_images_raises ==
    /\ pc = "checked"
    /\ qc.QCflag = FALSE
    /\ BandFileChoices(img_dir) = {}
    /\ raised' = "load_model_and_images"
    /\ pc' = "except"
    /\ UNCHANGED <<config, loop, img_dir, s2vals_nc, outputs, locals, lists, written>>

load_model_and_images == load_model_and_images_ok \/ load_model_and_images_raises

\* dataset.to_netcdf(savepath + "<tile>_<date>_Classification_and_Albedo_Data.nc")
WriteArtifact ==
    /\ artifacts' = [artifacts EXCEPT ![<<tile, date>>] = FileOf(ArtifactOf(ContentOf(s2vals_nc)))]
    /\ written' = written \cup {<<tile, date>>}

\* Mutant: the artifact is written first and the failing call comes after.
ClassifyImages_raises_early_AfterWrite ==
    /\ pc = "loaded"
    /\ WriteArtifact
    /\ raised' = "ClassifyImages before to_netcdf"
    /\ pc' = "except"
    /\ UNCHANGED <<config, loop, img_dir, s2vals_nc, figures, summaries, combined, concat_seen,
                   locals, lists>>

ClassifyImages_ok ==
    /\ pc = "loaded"
    /\ WriteArtifact
    /\ figures' = figures \cup {<<tile, date>>}
    /\ pc' = "classified"
    /\ UNCHANGED <<config, loop, img_dir, s2vals_nc, summaries, combined, concat_seen, locals,
                   lists, raised>>

\* A library call before to_netcdf raises (the classifier, the projection or
\* coordinate lookup, a read): nothing has been written.
ClassifyImages_raises_early ==
    /\ pc = "loaded"
    /\ raised' = "ClassifyImages before to_netcdf"
    /\ pc' = "except"
    /\ UNCHANGED <<config, loop, img_dir, s2vals_nc, outputs, locals, lists, written>>

\* The figure cannot be drawn or saved: the artifact is on disk already.
ClassifyImages_raises_late ==
    /\ pc = "loaded"
    /\ WriteArtifact
    /\ raised' = "ClassifyImages savefig"
    /\ pc' = "except"
    /\ UNCHANGED <<config, loop, img_dir, s2vals_nc, figures, summaries, combined, concat_seen,
                   locals, lists>>

ClassifyImages ==
    ClassifyImages_ok \/ ClassifyImages_raises_early \/ ClassifyImages_raises_late

\* What albedo_report reads back from the artifact of the current date.
ReportPredicted == Ravel(Values(ContentOf(artifacts[<<tile, date>>]).classified))

ReportAlbedo == Ravel(Values(ContentOf(artifacts[<<tile, date>>]).albedo))

\* Mutant: masterDF is replaced by the rows of the date instead of extended.
albedo_report_ok_ReplacesMaster ==
    /\ pc = "classified"
    /\ LET summaryDF == SummaryDF(ReportPredicted, ReportAlbedo)
       IN /\ SummaryShapeFits(summaryDF)
          /\ summaries' = [summaries EXCEPT ![<<tile, date>>] = FileOf(Summaryxr(summaryDF, date))]
    /\ masterDF' = AlbedoDF(ReportPredicted, ReportAlbedo, tile, date)
    /\ pc' = "clear"
    /\ UNCHANGED <<config, loop, img_dir, s2vals_nc, artifacts, figures, combined, concat_seen,
                   locals, download_problem_list, QCList, written, raised>>

\* Mutant: the summary is written and the append to masterDF then raises.
albedo_report_ok_RaisesAfterWrite ==
    /\ pc = "classified"
    /\ LET summaryDF == SummaryDF(ReportPredicted, ReportAlbedo)
       IN /\ SummaryShapeFits(summaryDF)
          /\ summaries' = [summaries EXCEPT ![<<tile, date>>] = FileOf(Summaryxr(summaryDF, date))]
    /\ raised' = "albedo_report"
    /\ pc' = "except"
    /\ UNCHANGED <<config, loop, img_dir, s2vals_nc, artifacts, figures, combined, concat_seen,
                   locals, lists, written>>

albedo_report_ok ==
    /\ pc = "classified"
    /\ LET summaryDF == SummaryDF(ReportPredicted, ReportAlbedo)
       IN /\ SummaryShapeFits(summaryDF)
          /\ summaries' = [summaries EXCEPT ![<<tile, date>>] = FileOf(Summaryxr(summaryDF, date))]
    /\ masterDF' = masterDF \o AlbedoDF(ReportPredicted, ReportAlbedo, tile, date)
    /\ pc' = "clear"
    /\ UNCHANGED <<config, loop, img_dir, s2vals_nc, artifacts, figures, combined, concat_seen,
                   locals, download_problem_list, QCList, written, raised>>

\* The DataArray constructor raises ValueError: nothing is written, masterDF
\* is not appended to.
albedo_report_raises ==
    /\ pc = "classified"
    /\ ~SummaryShapeFits(SummaryDF(ReportPredicted, ReportAlbedo))
    /\ raised' = "albedo_report"
    /\ pc' = "except"
    /\ UNCHANGED <<config, loop, img_dir, s2vals_nc, outputs, locals, lists, written>>

albedo_report == albedo_report_ok \/ albedo_report_raises

\* Mutant: the handler re-raises and the script ends.
analysis_failed_Aborts ==
    /\ pc = "except"
    /\ pc' = "crashed"
    /\ UNCHANGED <<config, loop, img_dir, s2vals_nc, outputs, locals, lists, written, raised>>

\* except: print the failure and move on.
analysis_failed ==
    /\ pc = "except"
    /\ pc' = "clear"
    /\ UNCHANGED <<config, loop, img_dir, s2vals_nc, outputs, locals, lists, written, raised>>

\* else branch of `if QCflag == False`.
skip_quality ==
    /\ pc = "checked"
    /\ qc.QCflag = TRUE
    /\ QCList' = Append(QCList, <<tile, date>>)
    /\ pc' = "clear"
    /\ UNCHANGED <<config, loop, img_dir, s2vals_nc, outputs, locals, download_problem_list,
                   masterDF, written, raised>>

\* Mutant: the pair is recorded twice.
skip_download_Twice ==
    /\ pc = "downloaded"
    /\ download_flag = TRUE
    /\ download_problem_list' = Append(Append(download_problem_list, <<tile, date>>), <<tile, date>>)
    /\ pc' = "clear"
    /\ UNCHANGED <<config, loop, img_dir, s2vals_nc, outputs, locals, QCList, masterDF,
                   written, raised>>

\* else branch of `if download_flag == False`.
skip_download ==
    /\ pc = "downloaded"
    /\ download_flag = TRUE
    /\ download_problem_list' = Append(download_problem_list, <<tile, date>>)
    /\ pc' = "clear"
    /\ UNCHANGED <<config, loop, img_dir, s2vals_nc, outputs, locals, QCList, masterDF,
                   written, raised>>

\* Mutant: the image files are left in the directory.
clear_img_directory_KeepsFiles ==
    /\ pc = "clear"
    /\ IF di < Len(dates)
       THEN /\ di' = di + 1
            /\ pc' = "download"
       ELSE /\ di' = di
            /\ pc' = "concat"
    /\ UNCHANGED <<config, runsLeft, dates, ti, img_dir, s2vals_nc, outputs, locals, lists,
                   written, raised>>

\* Mutant: the outputs folder lies under img_path and is emptied as well.
clear_img_directory_RemovesOutputs ==
    /\ pc = "clear"
    /\ img_dir' = {}
    /\ artifacts' = [k \in Keys |-> NoFile]
    /\ IF di < Len(dates)
       THEN /\ di' = di + 1
            /\ pc' = "download"
       ELSE /\ di' = di
            /\ pc' = "concat"
    /\ UNCHANGED <<config, runsLeft, dates, ti, s2vals_nc, figures, summaries, combined,
                   concat_seen, locals, lists, written, raised>>

\* Mutant: the concatenation is called inside the date loop, after each date.
clear_img_directory_ConcatEachDate ==
    /\ pc = "clear"
    /\ img_dir' = {}
    /\ pc' = "concat"
    /\ UNCHANGED <<config, loop, s2vals_nc, outputs, locals, lists, written, raised>>

\* clear_img_directory removes the .jp2 files; then the next date, or the
\* concatenation after the last one.
clear_img_directory ==
    /\ pc = "clear"
    /\ img_dir' = {}
    /\ IF di < Len(dates)
       THEN /\ di' = di + 1
            /\ pc' = "download"
       ELSE /\ di' = di
            /\ pc' = "concat"
    /\ UNCHANGED <<config, runsLeft, dates, ti, s2vals_nc, outputs, locals, lists, written, raised>>

\* glob(savepath + 'summary_data_*.nc'): the per-date summaries of the tile
\* and, once written, summary_data_all_dates_<tile>.nc itself.
SummaryFiles(t) ==
    {<<"date", d>> : d \in {e \in DateSet : Exists(summaries[<<t, e>>])}}
        \cup (IF Exists(combined[t]) THEN {<<"all_dates", t>>} ELSE {})

\* The date entries an opened file contributes to xr.concat(data, dim='date').
EntriesOf(t, name) ==
    IF name[1] = "date" THEN <<ContentOf(summaries[<<t, name[2]>>])>>
    ELSE ContentOf(combined[t])

ConcatData(t, xrlist) == ConcatSeqs([i \in 1..Len(xrlist) |-> EntriesOf(t, xrlist[i])])

\* After the last statement of the tile loop.
NextTile ==
    IF ti < Len(tiles)
    THEN /\ ti' = ti + 1
         /\ di' = 1
         /\ pc' = "download"
    ELSE /\ UNCHANGED <<ti, di>>
         /\ pc' = "done"

concat_all_dates_writes ==
    /\ pc = "concat"
    /\ \E xrlist \in Orders(SummaryFiles(tile)) :
          /\ xrlist # <<>>
          /\ combined' = [combined EXCEPT ![tile] = FileOf(ConcatData(tile, xrlist))]
    /\ concat_seen' = [concat_seen EXCEPT ![tile] = {d \in DateSet : Exists(summaries[<<tile, d>>])}]
    /\ NextTile
    /\ UNCHANGED <<config, runsLeft, dates, img_dir, s2vals_nc, artifacts, figures, summaries,
                   locals, lists, written, raised>>

\* xr.concat of an empty list raises ValueError, outside any try block.
concat_all_dates_empty ==
    /\ pc = "concat"
    /\ SummaryFiles(tile) = {}
    /\ pc' = "crashed"
    /\ UNCHANGED <<config, loop, img_dir, s2vals_nc, outputs, locals, lists, written, raised>>

\* The combined file is among the files the call opened and still holds open:
\* a netCDF4/HDF5 build refuses to truncate it and to_netcdf raises.
concat_all_dates_locked ==
    /\ pc = "concat"
    /\ Exists(combined[tile])
    /\ pc' = "crashed"
    /\ UNCHANGED <<config, loop, img_dir, s2vals_nc, outputs, locals, lists, written, raised>>

concat_all_dates ==
    concat_all_dates_writes \/ concat_all_dates_empty \/ concat_all_dates_locked

Next ==
    \/ StartRun
    \/ download_imgs_by_date
    \/ skip_download
    \/ format_mask_ok
    \/ img_quality_control
    \/ skip_quality
    \/ load_model_and_images
    \/ ClassifyImages
    \/ albedo_report
    \/ analysis_failed
    \/ clear_img_directory
    \/ concat_all_dates

Spec == Init /\ [][Next]_vars

\* A single run, read faults of the mask layers included; it never finds a
\* combined file of its own tile open.
NextScene ==
    \/ StartRun
    \/ download_imgs_by_date
    \/ skip_download
    \/ format_mask
    \/ img_quality_control
    \/ skip_quality
    \/ load_model_and_images
    \/ ClassifyImages
    \/ albedo_report
    \/ analysis_failed
    \/ clear_img_directory
    \/ concat_all_dates_writes
    \/ concat_all_dates_empty

SpecScene == InitScene /\ [][NextScene]_vars

\* ================================================================ claims

\* The digital number of a band at a pixel of the scene being processed.
InputDN(p, band) == blob[date].dn[p][BandIndex(band)]

\* The artifact of the (tile, date) being processed.
ArtifactNow == ContentOf(artifacts[<<tile, date>>])

\* C1: for every pixel the albedo computed by ClassifyImages equals
\* 0.356*B02 + 0.130*B04 + 0.373*B8A + 0.085*B11 + 0.072*B12 - 0.0018 of that
\* pixel's reflectances in exactly those five bands.  (The claim as stated;
\* it is compared at the pixels whose albedo is kept in the artifact.)
C1_AlbedoIsLiangOfNamedBands ==
    pc = "classified" =>
        \A p \in Pixels :
            ~IsNaN(Values(ArtifactNow.albedo)[p]) =>
                Values(ArtifactNow.albedo)[p][1] =
                    CoefBlue * InputDN(p, "B02") + CoefRed * InputDN(p, "B04")
                        + CoefNIR * InputDN(p, "B8A") + CoefSWIR1 * InputDN(p, "B11")
                        + CoefSWIR2 * InputDN(p, "B12") - AlbedoOffset

\* C2: a pixel is bad iff it is non-ice or cloud or no-data, no-data meaning
\* that B02 holds the sentinel NaNcover counts (0); each bad pixel counts
\* once, and useable_area = 100 - 100 * bad / pixels.  (The claim as stated.)
C2_BadPixelIsNonIceOrCloudOrNoData ==
    pc = "checked" =>
        LET claimedBad == {p \in Pixels :
                              \/ Icemask[p] = 0
                              \/ Cloudmask[p] = 1
                              \/ NoDataCell(InputDN(p, "B02"))}
        IN /\ qc.bad_pixel_counter = {RavelIndex(p) : p \in claimedBad}
           /\ qc.useable_area = UseableArea(Cardinality(claimedBad), NumPixels)

\* C3: the Quality Gate passes (QCflag = False) iff useable_area >=
\* minimum_useable_area, for every threshold; equality passes.
C3_GatePassesIffUseableAtLeastMinimum ==
    pc = "checked" =>
        (qc.QCflag = FALSE <=> ~FloatLess(qc.useable_area, FromInt(minimum_useable_area)))

C3_Witness_EqualityPasses ==
    /\ pc = "checked"
    /\ qc.useable_area = FromInt(minimum_useable_area)
    /\ qc.QCflag = FALSE

C5_FinalMaskIsIceAndSampledAndClear ==
    pc = "classified" =>
        \A p \in Pixels :
            /\ Values(ArtifactNow.FinalMask)[p] <=>
                  /\ Icemask[p] = 1
                  /\ SumSeq(blob[date].dn[p]) > 0
                  /\ Cloudmask[p] = 0
            /\ Values(ArtifactNow.FinalMask)[p] => gimp[tile][p] = 1
            /\ Values(ArtifactNow.FinalMask)[p] => blob[date].prob[p] < cloudProbThreshold

\* A scene with a valid pixel, a cloudy ice pixel whose mirror image across
\* the diagonal is clear, and an unsampled clear ice pixel.
C5_Witness_CloudBankAndGap ==
    /\ pc = "classified"
    /\ \E p \in Pixels : Values(ArtifactNow.FinalMask)[p]
    /\ \E p \in Pixels :
          /\ Icemask[p] = 1 /\ Cloudmask[p] = 1
          /\ Icemask[<<p[2], p[1]>>] = 1 /\ Cloudmask[<<p[2], p[1]>>] = 0
          /\ SumSeq(blob[date].dn[<<p[2], p[1]>>]) > 0
    /\ \E p \in Pixels :
          /\ Icemask[p] = 1 /\ Cloudmask[p] = 0 /\ SumSeq(blob[date].dn[p]) = 0
          /\ ~Values(ArtifactNow.FinalMask)[p]

\* C6: in every ClassificationArtifact the classified grid and the albedo grid
\* hold a defined value at exactly the pixels where FinalMask is true and the
\* sentinel (NaN) everywhere else.
C6_GridsDefinedExactlyOnFinalMask ==
    \A k \in Keys :
        Exists(artifacts[k]) =>
            \A p \in Pixels :
                /\ ~IsNaN(Values(ContentOf(artifacts[k]).classified)[p])
                      <=> Values(ContentOf(artifacts[k]).FinalMask)[p]
                /\ ~IsNaN(Values(ContentOf(artifacts[k]).albedo)[p])
                      <=> Values(ContentOf(artifacts[k]).FinalMask)[p]

C6_Witness_ArtifactWithMaskedAndValidPixels ==
    \E k \in Keys :
        /\ Exists(artifacts[k])
        /\ \E p \in Pixels :
              /\ Values(ContentOf(artifacts[k]).FinalMask)[p]
              /\ Values(ContentOf(artifacts[k]).classified)[p] \in {Val(c) : c \in 1..6}
              /\ ~IsNaN(Values(ContentOf(artifacts[k]).albedo)[p])
        /\ \E p \in Pixels :
              /\ ~Values(ContentOf(artifacts[k]).FinalMask)[p]
              /\ IsNaN(Values(ContentOf(artifacts[k]).classified)[p])
              /\ IsNaN(Values(ContentOf(artifacts[k]).albedo)[p])

\* The per-date summaries of a tile that are on disk.
SummaryDates(t) == {d \in DateSet : Exists(summaries[<<t, d>>])}

\* The number of valid pixels of the current artifact classified as label c.
ValidCount(c) == Cardinality({p \in Pixels : Values(ArtifactNow.classified)[p] = Val(c)})

\* C7: for every successfully classified scene, whichever classes occur among
\* its valid pixels, albedo_report persists a SummaryRecord with exactly the
\* six rows SN..HA, row i holding the statistics of label i; an absent class
\* gets a default row (count 0) and causes no failure.  (The claim as stated.)
C7_SummaryHasSixRowsWhateverClassesOccur ==
    (/\ pc \in {"clear", "except"}
     /\ raised \in {"none", "albedo_report"}
     /\ <<tile, date>> \in written)
        => /\ raised = "none"
           /\ Exists(summaries[<<tile, date>>])
           /\ DOMAIN ContentOf(summaries[<<tile, date>>]).rows = {ClassIDs[i] : i \in 1..Len(ClassIDs)}
           /\ \A i \in 1..Len(ClassIDs) :
                 ContentOf(summaries[<<tile, date>>]).rows[ClassIDs[i]].count = ValidCount(i)

\* C8: when concat_all_dates is run again for a tile after exactly one more
\* per-date SummaryRecord has been persisted, the new combined series has
\* exactly one more date entry than the previous one and still holds every
\* previous entry.  (The claim as stated.)
C8_OneMoreSummaryGivesOneMoreEntry ==
    [][ (/\ pc = "concat"
         /\ pc' # "crashed"
         /\ Exists(combined[tile])
         /\ concat_seen[tile] \subseteq SummaryDates(tile)
         /\ Cardinality(SummaryDates(tile)) = Cardinality(concat_seen[tile]) + 1)
            => /\ Len(ContentOf(combined'[tile])) = Len(ContentOf(combined[tile])) + 1
               /\ \A i \in 1..Len(ContentOf(combined[tile])) :
                     \E j \in 1..Len(ContentOf(combined'[tile])) :
                         ContentOf(combined'[tile])[j] = ContentOf(combined[tile])[i] ]_vars

\* C9: concat_all_dates is idempotent: run again on the same set of per-date
\* SummaryRecords it yields a combined file with as many date entries as
\* before, one per per-date SummaryRecord; the previous combined file is
\* overwritten, never read.  (The claim as stated.)
C9_ConcatIsIdempotent ==
    [][ (/\ pc = "concat"
         /\ pc' # "crashed"
         /\ Exists(combined[tile])
         /\ concat_seen[tile] = SummaryDates(tile))
            => /\ Len(ContentOf(combined'[tile])) = Len(ContentOf(combined[tile]))
               /\ Len(ContentOf(combined'[tile])) = Cardinality(SummaryDates(tile)) ]_vars

\* C10 as stated: whenever processing of a (tile, date) ends in the except
\* branch, no artifact for that (tile, date) has been written in this run.
C10_FailureImpliesNoArtifact ==
    pc = "except" => <<tile, date>> \notin written

\* C10 amended: in the except branch the artifact of the (tile, date) has been
\* written in this run exactly when the exception was raised after the
\* to_netcdf call of ClassifyImages (while saving the figure, or in
\* albedo_report); a failure raised before it leaves no artifact.
C10_ArtifactWrittenIffRaisedAfterWrite ==
    pc = "except" =>
        (<<tile, date>> \in written
            <=> raised \in {"ClassifyImages savefig", "albedo_report"})

C10_Witness_EarlyFailureLeavesNoArtifact ==
    /\ pc = "except"
    /\ raised \in {"load_model_and_images", "ClassifyImages before to_netcdf"}
    /\ <<tile, date>> \notin written
    /\ ~Exists(artifacts[<<tile, date>>])

\* C11: if the ice mask or the cloud layer cannot be read while the masks of
\* a date that passed the download check are built, the error is caught by
\* the try/except of that date: control passes to the except branch, only that
\* date is abandoned and the run goes on.  (The claim as stated.)
C11_MaskReadErrorIsCaughtPerDate ==
    [][ (pc = "downloaded" /\ download_flag = FALSE /\ raised' = "format_mask")
            => pc' = "except" ]_vars

\* C12: whatever the outcomes of the dates of a tile, the case where no date
\* left a SummaryRecord included, the run goes through the concatenation that
\* follows the last date and ends normally.  (The claim as stated, on a disk
\* that holds no combined file of an earlier run.)
C12_RunEndsNormallyWhateverTheOutcomes ==
    [][ (pc = "concat" /\ ~Exists(combined[tile])) => pc' \in {"download", "done"} ]_vars

C14_DownloadFlagIffNineBandsAndCloudLayer ==
    [][ pc = "download" =>
            /\ pc' = "downloaded"
            /\ img_dir' = img_dir \cup {LocalFile(date, f) : f \in {g \in blob[date].files : g.res = 20}}
            /\ download_flag' = FALSE
                  <=> /\ Cardinality({f \in img_dir' : f.layer \in BandSet}) >= 9
                      /\ Cardinality({f \in img_dir' : f.layer = "CLD"}) >= 1 ]_vars

\* Exactly nine band files, one of them a second file of a band, and one
\* cloud layer: the flag is not raised.
C14_Witness_NineFilesAndCloudLayer ==
    /\ pc = "downloaded"
    /\ download_flag = FALSE
    /\ Cardinality(GlobBands(img_dir)) = 9
    /\ Cardinality(GlobLayer(img_dir, "CLD")) = 1
    /\ \E b \in BandSet : GlobLayer(img_dir, b) = {}

\* How many times a (tile, date) pair occurs in a list of skipped pairs.
Occurrences(list, pair) == Cardinality({i \in 1..Len(list) : list[i] = pair})

\* C15: when download_flag is raised for a (tile, date), the only thing done
\* for the pair is to append it to download_problem_list, where it then
\* occurs exactly once: no mask is built, no quality control, classification
\* or aggregation runs and nothing is written; the image directory is cleared
\* and the loop moves to the next date.
C15_DownloadSkipDoesNothingButRecord ==
    [][ /\ (pc = "downloaded" /\ download_flag = TRUE)
              => /\ download_problem_list' = Append(download_problem_list, <<tile, date>>)
                 /\ Occurrences(download_problem_list', <<tile, date>>) = 1
                 /\ pc' = "clear"
                 /\ UNCHANGED <<loop, Icemask, Cloudmask, qc, s2vals_nc, outputs, QCList,
                                masterDF, written>>
        /\ (pc = "clear" /\ download_flag = TRUE)
              => /\ UNCHANGED <<dates, ti, lists, Icemask, Cloudmask, qc, s2vals_nc, outputs, written>>
                 /\ IF di < Len(dates)
                    THEN di' = di + 1 /\ pc' = "download"
                    ELSE di' = di /\ pc' = "concat" ]_vars

\* The first date of a two-date list was skipped for its download; the
\* second date is about to be downloaded.
C15_Witness_SkippedDateThenNextDate ==
    /\ pc = "download"
    /\ di = 2
    /\ download_flag = TRUE
    /\ download_problem_list = << <<tile, dates[1]>> >>
    /\ QCList = <<>>
    /\ written = {}

\* C16: when the quality check fails for a (tile, date), the entry appended to
\* QCList holds the pair together with its useable_area percentage; no
\* classification or aggregation runs for it, nothing is written, and the
\* loop goes on without an exception.  (The claim as stated.)
C16_QualitySkipRecordsUseableArea ==
    [][ (pc = "checked" /\ qc.QCflag = TRUE)
            => /\ QCList' = Append(QCList, <<tile, date, qc.useable_area>>)
               /\ pc' = "clear"
               /\ UNCHANGED <<loop, s2vals_nc, outputs, download_problem_list, masterDF, written>> ]_vars

\* C17: in load_model_and_images, if the lookup of one of the nine band
\* identifiers finds no file or more than one file in the image directory,
\* the scene fails with an error and no S2vals dataset is built.  (The claim
\* as stated.)
C17_MissingOrAmbiguousBandFails ==
    [][ (/\ pc = "checked"
         /\ qc.QCflag = FALSE
         /\ \E b \in BandSet : Cardinality(GlobLayer(img_dir, b)) # 1)
            => /\ pc' = "except"
               /\ raised' = "load_model_and_images"
               /\ UNCHANGED s2vals_nc ]_vars

\* C18: at every pixel where FinalMask is true the albedo lies in [0, 1]
\* (0 .. ReflectanceScale^2 in the units of AlbedoAt), the band reflectances
\* being in [0, 1].  (The claim as stated.)
C18_AlbedoWithinZeroAndOne ==
    \A k \in Keys :
        Exists(artifacts[k]) =>
            \A p \in Pixels :
                Values(ContentOf(artifacts[k]).FinalMask)[p] =>
                    /\ Values(ContentOf(artifacts[k]).albedo)[p][1] >= 0
                    /\ Values(ContentOf(artifacts[k]).albedo)[p][1] <= ReflectanceScale * ReflectanceScale

\* C20: whichever way the iteration of a date ended, when the download of the
\* next date starts no file written to the image directory while that date
\* was processed is still there: neither a downloaded image nor S2vals.nc.
\* (The claim as stated.)
C20_ScratchEmptyWhenNextDownloadStarts ==
    (pc = "download" /\ di > 1) => (img_dir = {} /\ ~Exists(s2vals_nc))

\* The numbers of ice pixels, of cloud pixels and of pixels not counted bad
\* in the scene that img_quality_control has just checked.
IcePixels == Cardinality({p \in Pixels : Icemask[p] = 1})

CloudPixels == Cardinality({p \in Pixels : Cloudmask[p] = 1})

UseablePixels == NumPixels - Cardinality(qc.bad_pixel_counter)

\* C19 as stated: the float useable_area never exceeds the float IceCover nor
\* 100 - CloudCover, and every scene whose IceCover is below
\* minimum_useable_area fails the quality check.
C19_UseableAreaNeverExceedsIceCover ==
    pc = "checked" =>
        /\ ~FloatLess(qc.IceCover, qc.useable_area)
        /\ ~FloatLess(FloatMinus(FromInt(100), qc.CloudCover), qc.useable_area)
        /\ FloatLess(qc.IceCover, FromInt(minimum_useable_area)) => qc.QCflag = TRUE

\* C19 amended: the pixels not counted bad are ice pixels and cloud-free
\* pixels, useable_area is the float 100 - (bad / n) * 100 of their count; it
\* never exceeds 100 - CloudCover, and it exceeds the float IceCover = (ice /
\* n) * 100 only by rounding, when every ice pixel is useable.  Every scene in
\* which the ice pixels are fewer than minimum_useable_area percent of the
\* pixels fails the quality check, is not classified and is appended to
\* QCList.
C19_UseablePixelsAreIcePixels ==
    [][ pc = "checked" =>
            /\ UseablePixels <= IcePixels
            /\ UseablePixels <= NumPixels - CloudPixels
            /\ qc.useable_area = UseableArea(NumPixels - UseablePixels, NumPixels)
            /\ qc.IceCover = Percent(IcePixels, NumPixels)
            /\ ~FloatLess(FloatMinus(FromInt(100), qc.CloudCover), qc.useable_area)
            /\ FloatLess(qc.IceCover, qc.useable_area) => UseablePixels = IcePixels
            /\ 100 * IcePixels < minimum_useable_area * NumPixels
                  => /\ qc.QCflag = TRUE
                     /\ pc' = "clear"
                     /\ QCList' = Append(QCList, <<tile, date>>)
                     /\ UNCHANGED <<s2vals_nc, outputs, masterDF, written>> ]_vars

\* A cloud-free scene with some ice, but less than the minimum, has been
\* skipped by the quality check.
C19_Witness_LowIceCoverSkipped ==
    /\ pc = "clear"
    /\ qc # <<>>
    /\ qc.QCflag = TRUE
    /\ QCList # <<>>
    /\ QCList[Len(QCList)] = <<tile, date>>
    /\ IcePixels > 0
    /\ CloudPixels = 0
    /\ 100 * IcePixels < minimum_useable_area * NumPixels
    /\ <<tile, date>> \notin written

\* How the processing of the current (tile, date) ended, read when the loop
\* has reached clear_img_directory.
AcquisitionIncomplete ==
    /\ pc = "clear"
    /\ download_flag = TRUE
    /\ Occurrences(download_problem_list, <<tile, date>>) = 1

QualityShortfall ==
    /\ pc = "clear"
    /\ download_flag = FALSE
    /\ qc.QCflag = TRUE
    /\ Occurrences(QCList, <<tile, date>>) = 1

ProcessingFailure ==
    /\ pc = "clear"
    /\ download_flag = FALSE
    /\ qc.QCflag = FALSE
    /\ raised # "none"

Success ==
    /\ pc = "clear"
    /\ download_flag = FALSE
    /\ qc.QCflag = FALSE
    /\ raised = "none"
    /\ <<tile, date>> \in written
    /\ Exists(summaries[<<tile, date>>])

\* C21: every processed (tile, date) ends in exactly one of the four outcomes
\* acquisition incomplete, quality shortfall, processing failure, success;
\* download_problem_list and QCList are disjoint, each holds a pair at most
\* once, and a pair whose classification was attempted is in neither list.
\* (The claim as stated.  The processing of a date is over when the loop is
\* at clear_img_directory or the script has ended while the masks were built;
\* classification has been attempted once load_model_and_images has run.)
C21_EveryDateEndsInOneOfFourOutcomes ==
    /\ (pc = "clear" \/ (pc = "crashed" /\ raised = "format_mask"))
          => Cardinality({i \in 1..4 :
                             \/ i = 1 /\ AcquisitionIncomplete
                             \/ i = 2 /\ QualityShortfall
                             \/ i = 3 /\ ProcessingFailure
                             \/ i = 4 /\ Success}) = 1
    /\ \A k \in Keys :
          /\ Occurrences(download_problem_list, k) + Occurrences(QCList, k) <= 1
          /\ k \in written =>
                Occurrences(download_problem_list, k) + Occurrences(QCList, k) = 0
    /\ (\/ pc \in {"loaded", "classified", "except"}
        \/ pc = "clear" /\ download_flag = FALSE /\ qc.QCflag = FALSE) =>
          Occurrences(download_problem_list, <<tile, date>>)
              + Occurrences(QCList, <<tile, date>>) = 0

\* The steps of one date, in the order of the loop body.
DateSteps == <<"download", "downloaded", "masked", "checked", "loaded", "classified", "except", "clear">>

StepIndex(step) == CHOOSE i \in 1..Len(DateSteps) : DateSteps[i] = step

C23_NoSummaryExistsForSkippedOrFailedPair ==
    [][ /\ \A k \in Keys : summaries'[k] # summaries[k] => k \in written
        /\ (AcquisitionIncomplete \/ QualityShortfall \/ ProcessingFailure)
              => ~Exists(summaries[<<tile, date>>]) ]_vars

\* C23 amended: a run writes the SummaryRecord of a (tile, date) only after
\* it has written the ClassificationArtifact of that pair, and only for a
\* pair that passed both gates and ends in success; it writes none for a pair
\* it skips or whose processing fails, and it never deletes one (a record an
\* earlier run left for the pair stays on disk).
C23_SummaryWrittenOnlyAfterArtifactOfSuccess ==
    [][ \A k \in Keys :
            /\ summaries'[k] # summaries[k]
                  => /\ k = <<tile, date>>
                     /\ pc = "classified"
                     /\ k \in written
                     /\ Exists(artifacts[k])
                     /\ download_flag = FALSE
                     /\ qc.QCflag = FALSE
                     /\ raised = "none"
                     /\ raised' = "none"
                     /\ pc' = "clear"
            /\ Exists(summaries[k]) => Exists(summaries'[k]) ]_vars

\* The first date of the list was skipped or failed in this run and has no
\* SummaryRecord; the second succeeded and has one.
C23_Witness_SummaryForSuccessOnly ==
    /\ pc = "clear"
    /\ di = 2
    /\ Success
    /\ <<tile, dates[1]>> \notin written
    /\ ~Exists(summaries[<<tile, dates[1]>>])
    /\ Exists(summaries[<<tile, dates[2]>>])

\* C24: during a run over a date list without duplicates the
\* ClassificationArtifact of a (tile, date) is written exactly once, by the
\* ClassifyImages call of that date, into the one file of that pair; no
\* other step of the run (aggregation, clearing, concatenation, a later date)
\* changes or deletes an artifact.
C24_ArtifactWrittenOnceAndNeverTouched ==
    [][ /\ (pc = "loaded" /\ pc' = "classified")
              => /\ <<tile, date>> \notin written
                 /\ written' = written \cup {<<tile, date>>}
                 /\ Exists(artifacts'[<<tile, date>>])
        /\ pc = "loaded"
              => \A k \in Keys : k # <<tile, date>> => artifacts'[k] = artifacts[k]
        /\ pc # "loaded" => artifacts' = artifacts
        /\ pc \notin {"loaded", "idle", "done", "crashed"} => written' = written
        /\ (pc = "clear" /\ Success) => <<tile, date>> \in written ]_vars

\* A run over two dates has ended; both scenes succeeded and the artifact of
\* each is on disk.
C24_Witness_TwoArtifactsAfterRun ==
    /\ pc = "done"
    /\ Len(dates) = 2
    /\ written = {<<tile, dates[1]>>, <<tile, dates[2]>>}
    /\ \A k \in written : Exists(artifacts[k])
    /\ ContentOf(artifacts[<<tile, dates[1]>>]) # ContentOf(artifacts[<<tile, dates[2]>>])

\* ------------------------------------------- Train_Classifier.create_dataset

\* The first wavelength (nm) of the field spectra; row i of a spectrum is the
\* reflectance at SpectrumStart + i nm.
SpectrumStart == 350

\* The rows create_dataset keeps, in the order of the feature columns R140,
\* R210, ..., R1840 (the label column is dropped before training).
TrainingColumns == <<140, 210, 315, 355, 390, 433, 515, 1260, 1840>>

\* The nominal centre wavelength (nm) of the Sentinel-2 bands the pipeline
\* loads: the nine key wavelengths create_dataset selects are those of the
\* instrument.
BandCentreNm(band) ==
    CASE band = "B02" -> 490
      [] band = "B03" -> 560
      [] band = "B04" -> 665
      [] band = "B05" -> 705
      [] band = "B06" -> 740
      [] band = "B07" -> 783
      [] band = "B8A" -> 865
      [] band = "B11" -> 1610
      [] band = "B12" -> 2190

\* The sample table ClassifyImages is about to give to the classifier.
SamplesNow == StackedT(ConcatBands(ContentOf(s2vals_nc)))

\* C25: the 9-element feature vector of each pixel lists the band values in
\* the order B02, B03, B04, B05, B06, B07, B8A, B11, B12, and this is the
\* order of the training feature columns R140 ... R1840, i.e. 490, 560, 665,
\* 705, 740, 783, 865, 1610, 2190 nm.
C25_FeatureOrderIsTrainingColumnOrder ==
    pc = "loaded" =>
        LET order == <<"B02", "B03", "B04", "B05", "B06", "B07", "B8A", "B11", "B12">>
        IN /\ Len(TrainingColumns) = Len(order)
           /\ \A i \in 1..Len(order) :
                 /\ SpectrumStart + TrainingColumns[i] = BandCentreNm(order[i])
                 /\ \A k \in 1..NumPixels :
                       /\ Len(SamplesNow[k]) = Len(order)
                       /\ SamplesNow[k][i] = InputDN(Unravel(k), order[i])

\* A scene is about to be classified in which every two neighbouring
\* features differ at some pixel.
C25_Witness_SceneTellsTheBandsApart ==
    /\ pc = "loaded"
    /\ \A i \in 1..(Len(BandNames) - 1) :
          \E p \in Pixels : InputDN(p, BandNames[i]) # InputDN(p, BandNames[i + 1])

\* The nine band values of a pixel of the scene being processed, in the
\* order of the feature columns.
PixelFeatures(p) == [i \in 1..Len(BandNames) |-> InputDN(p, BandNames[i])]

\* C26: flattening the (y, x) grid into the sample table and reshaping the
\* predicted labels back is a round trip: at every pixel (y, x) the label of
\* the predicted grid, and the label the artifact stores there (at a pixel of
\* FinalMask, the others hold no label), is the label predicted from the nine
\* band values of that same pixel.
C26_LabelAtPixelIsPredictedFromThatPixel ==
    /\ pc = "loaded" =>
          \A p \in Pixels :
              PredictedGrid(ConcatBands(ContentOf(s2vals_nc)))[p] = Predict(PixelFeatures(p))
    /\ pc = "classified" =>
          \A p \in Pixels :
              Values(ArtifactNow.FinalMask)[p] =>
                  Values(ArtifactNow.classified)[p] = Val(Predict(PixelFeatures(p)))

\* A classified scene in which a valid pixel and its mirror image across the
\* diagonal carry different labels.
C26_Witness_LabelsDifferAcrossDiagonal ==
    /\ pc = "classified"
    /\ \E p \in Pixels :
          /\ Values(ArtifactNow.FinalMask)[p]
          /\ Values(ArtifactNow.FinalMask)[<<p[2], p[1]>>]
          /\ Values(ArtifactNow.classified)[p] # Values(ArtifactNow.classified)[<<p[2], p[1]>>]
          /\ Values(ArtifactNow.classified)[p] = Val(Predict(PixelFeatures(p)))

\* The S2vals dataset of the (tile, date) being processed: its nine bands as
\* the storage holds them for that date, the ice mask of the tile and the
\* cloud mask of that date.
S2valsOfDate ==
    S2valsOf([i \in 1..Len(BandNames) |-> [p \in Pixels |-> InputDN(p, BandNames[i])]],
             ReprojectMask(gimp[tile]),
             CloudmaskOf(blob[date].prob, cloudProbThreshold))

\* C27: whenever ClassifyImages runs for a date, the S2vals.nc it reads was
\* written by load_model_and_images for that date in the same iteration: it
\* holds that date's dataset and the artifact is computed from it; an
\* S2vals.nc left by an earlier date is never classified as the current one.
C27_ClassifiedS2valsIsOfTheCurrentDate ==
    [][ /\ pc' = "loaded" => (pc = "checked" /\ Exists(s2vals_nc'))
        /\ pc = "loaded" =>
              /\ ContentOf(s2vals_nc) = S2valsOfDate
              /\ <<tile, date>> \in written' =>
                    ContentOf(artifacts'[<<tile, date>>]) = ArtifactOf(S2valsOfDate) ]_vars

\* The second date of a run has been classified from its own S2vals.nc while
\* an earlier date, with another scene, had left one in the directory.
C27_Witness_SecondDateAfterAnotherScene ==
    /\ pc = "classified"
    /\ di = 2
    /\ <<tile, dates[1]>> \in written
    /\ ContentOf(artifacts[<<tile, dates[1]>>]) # ArtifactNow
    /\ ArtifactNow = ArtifactOf(S2valsOfDate)

\* The local files download_imgs_by_date retrieves for a date: the 20 m
\* objects the storage holds for it.
Downloaded(d) == {LocalFile(d, f) : f \in {g \in blob[d].files : g.res = 20}}

\* C28: the scratch directory holding no .jp2 file when the run starts (as in
\* every run here), at every completeness check and at every band or
\* cloud-layer lookup of a date the .jp2 files in the directory are exactly
\* those downloaded for that date: the download flag and the files read never
\* depend on the files of an earlier date.
C28_ScratchHoldsOnlyCurrentDateFiles ==
    [][ /\ pc \in {"idle", "done", "crashed"} => img_dir = {}
        /\ pc = "download"
              => /\ img_dir = {}
                 /\ img_dir' = Downloaded(date)
                 /\ download_flag' = DownloadFlagOf(Downloaded(date))
        /\ pc \in {"downloaded", "masked", "checked"}
              => /\ img_dir = Downloaded(date)
                 /\ img_dir' = img_dir
                 /\ \A f \in GlobBands(img_dir) \cup GlobLayer(img_dir, "CLD") : f.date = date
        /\ pc' = "loaded"
              => \E fileB \in BandFileChoices(Downloaded(date)) :
                    ContentOf(s2vals_nc') =
                        S2valsOf([i \in 1..Len(BandNames) |-> ReadLayer(fileB[i])], Icemask, Cloudmask) ]_vars

\* The second date of a run is looked up in a directory that holds its own
\* files only, the first date having had other files.
C28_Witness_EarlierFilesAreGone ==
    /\ pc = "checked"
    /\ di = 2
    /\ Downloaded(dates[1]) # {}
    /\ blob[dates[1]].files # blob[dates[2]].files
    /\ img_dir = Downloaded(dates[2])
    /\ img_dir # {}

\* C29: masterDF is left unchanged by a date that is skipped by a gate or
\* whose processing raises inside the try block, and grows by exactly the
\* pixel rows of the date (one row per pixel, carrying the labels and albedo
\* of its artifact, its tile and its date) when the date succeeds; the rows of
\* earlier dates are never altered.
C29_MasterFrameGrowsOnlyBySuccessfulDates ==
    [][ (pc \in {DateSteps[i] : i \in 1..Len(DateSteps)}) =>
            /\ Len(masterDF') >= Len(masterDF)
            /\ SubSeq(masterDF', 1, Len(masterDF)) = masterDF
            /\ masterDF' # masterDF
                  => /\ pc = "classified"
                     /\ pc' = "clear"
                     /\ raised' = "none"
                     /\ download_flag = FALSE
                     /\ qc.QCflag = FALSE
                     /\ Len(masterDF') = Len(masterDF) + NumPixels
                     /\ \A k \in 1..NumPixels :
                           masterDF'[Len(masterDF) + k] =
                               [ pred |-> Values(ArtifactNow.classified)[Unravel(k)],
                                 albedo |-> Values(ArtifactNow.albedo)[Unravel(k)],
                                 tile |-> tile,
                                 date |-> date ]
            /\ (pc = "classified" /\ pc' = "clear") => masterDF' # masterDF ]_vars

\* The first date of the run succeeded and the second was skipped or failed:
\* masterDF holds the rows of the first date only.
C29_Witness_SkippedDateAfterSuccess ==
    /\ pc = "clear"
    /\ di = 2
    /\ ~Success
    /\ <<tile, dates[1]>> \in written
    /\ Len(masterDF) = NumPixels
    /\ \A k \in 1..NumPixels : masterDF[k].date = dates[1]

====
